---- MODULE Spec2Model ----
(***************************************************************************)
(* Model of src/ontology/domain_manager.rs: DomainConfig, OntologyManager  *)
(* (construction, reload, duplication, read-only calls, RDF format         *)
(* detection) and OntologyStats.                                           *)
(*                                                                         *)
(* Text is a sequence of atoms.  An atom is a literal piece of text (a     *)
(* marker such as "@prefix", one character such as "." or "\n", or a word  *)
(* without any marker in it); the text is the concatenation of its atoms.  *)
(* No marker the code searches for straddles two atoms of the alphabets    *)
(* used here, so substring search is search for an atom.                   *)
(***************************************************************************)
EXTENDS Integers, Sequences, FiniteSets, TLC

VARIABLES fs, shapes, mgr, last, arg, ret, dc, added

vars == <<fs, shapes, mgr, last, arg, ret, dc, added>>

(***************************************************************************)
(* Text helpers (Rust str methods on atom sequences)                       *)
(***************************************************************************)

\* char::is_whitespace for the atoms of the alphabets
IsWs(a) == a \in {" ", "\n"}

\* the atoms whose first character is '#'
HashFirst(a) == a \in {"#", "# Transaction type:", "# Validation rule:"}

RECURSIVE TrimStart(_)
TrimStart(s) ==
    IF s = <<>> THEN <<>>
    ELSE IF IsWs(Head(s)) THEN TrimStart(Tail(s)) ELSE s

RECURSIVE TrimEnd(_)
TrimEnd(s) ==
    IF s = <<>> THEN <<>>
    ELSE IF IsWs(s[Len(s)]) THEN TrimEnd(SubSeq(s, 1, Len(s) - 1)) ELSE s

\* str::trim
Trim(s) == TrimEnd(TrimStart(s))

\* str::contains(marker), marker one atom
Contains(s, m) == \E i \in 1..Len(s) : s[i] = m

\* str::starts_with(marker), marker one atom
StartsWith(s, m) == Len(s) > 0 /\ s[1] = m

\* str::starts_with('#')
StartsWithHash(s) == Len(s) > 0 /\ HashFirst(s[1])

\* str::ends_with(" .")
EndsWithSpaceDot(s) == Len(s) >= 2 /\ s[Len(s) - 1] = " " /\ s[Len(s)] = "."

\* str::find(marker): the first index of the atom, 0 when absent
RECURSIVE FindFrom(_, _, _)
FindFrom(s, m, i) ==
    IF i > Len(s) THEN 0
    ELSE IF s[i] = m THEN i ELSE FindFrom(s, m, i + 1)

Find(s, m) == FindFrom(s, m, 1)

\* the pieces of s between "\n" atoms: one more piece than there are "\n"
RECURSIVE SplitNL(_)
SplitNL(s) ==
    LET i == Find(s, "\n") IN
    IF i = 0 THEN <<s>>
    ELSE <<SubSeq(s, 1, i - 1)>> \o SplitNL(SubSeq(s, i + 1, Len(s)))

\* str::lines: split at "\n"; a final empty piece is not a line
Lines(s) ==
    LET p == SplitNL(s) IN
    IF p[Len(p)] = <<>> THEN SubSeq(p, 1, Len(p) - 1) ELSE p

\* str::to_lowercase on an atom of the path alphabet
LowerAtom(a) ==
    CASE a = "NQ" -> "nq"
      [] a = "NT" -> "nt"
      [] a = "OWL" -> "owl"
      [] a = "A" -> "a"
      [] OTHER -> a

ToLowercase(s) == [i \in 1..Len(s) |-> LowerAtom(s[i])]

\* the last index of atom m in s, 0 when absent
RECURSIVE RFindFrom(_, _, _)
RFindFrom(s, m, i) ==
    IF i = 0 THEN 0
    ELSE IF s[i] = m THEN i ELSE RFindFrom(s, m, i - 1)

\* Path::extension of a path without directory separators: none for "..",
\* for a name without '.', and for a name whose only '.' is its first
\* character; otherwise the text after the last '.'
PathExtension(p) ==
    LET i == RFindFrom(p, ".", Len(p)) IN
    IF p = <<".", ".">> \/ i = 0 \/ i = 1
    THEN [some |-> FALSE, ext |-> <<>>]
    ELSE [some |-> TRUE, ext |-> SubSeq(p, i + 1, Len(p))]

(***************************************************************************)
(* Format detector                                                         *)
(***************************************************************************)

Formats == {"Turtle", "RdfXml", "NTriples", "NQuads"}

\* the closure of the N-Triples check, on one line
NTriplesLine(line) ==
    LET l == Trim(line) IN
    l = <<>> \/ StartsWithHash(l) \/ EndsWithSpaceDot(l)

\* the match on the lowercased extension
ExtensionFormat(ext, content) ==
    LET e == ToLowercase(ext) IN
    IF e \in {<<"ttl">>, <<"turtle">>} THEN "Turtle"
    ELSE IF e \in {<<"owl">>, <<"rdf">>, <<"xml">>}
    THEN IF Contains(content, "<?xml") \/ Contains(content, "<rdf:RDF")
         THEN "RdfXml" ELSE "Turtle"
    ELSE IF e = <<"nt">> THEN "NTriples"
    ELSE IF e = <<"nq">> THEN "NQuads"
    ELSE "Turtle"

detect_rdf_format_nt_first(content, file_path) ==
    LET trimmed_content == Trim(content)
        ls == Lines(content)
        x == PathExtension(file_path)
    IN
    IF \A i \in 1..Len(ls) : NTriplesLine(ls[i]) THEN "NTriples"
    ELSE IF \/ StartsWith(trimmed_content, "@prefix")
            \/ StartsWith(trimmed_content, "@base")
            \/ Contains(content, "@prefix")
    THEN "Turtle"
    ELSE IF \/ StartsWith(trimmed_content, "<?xml")
            \/ StartsWith(trimmed_content, "<rdf:RDF")
            \/ Contains(content, "<rdf:RDF")
    THEN "RdfXml"
    ELSE IF x.some THEN ExtensionFormat(x.ext, content) ELSE "Turtle"

detect_rdf_format_ext_case(content, file_path) ==
    LET trimmed_content == Trim(content)
        ls == Lines(content)
        x == PathExtension(file_path)
    IN
    IF \/ StartsWith(trimmed_content, "@prefix")
       \/ StartsWith(trimmed_content, "@base")
       \/ Contains(content, "@prefix")
    THEN "Turtle"
    ELSE IF \/ StartsWith(trimmed_content, "<?xml")
            \/ StartsWith(trimmed_content, "<rdf:RDF")
            \/ Contains(content, "<rdf:RDF")
    THEN "RdfXml"
    ELSE IF \A i \in 1..Len(ls) : NTriplesLine(ls[i]) THEN "NTriples"
    ELSE IF x.some /\ x.ext = <<"nq">> THEN "NQuads"
    ELSE IF x.some /\ x.ext = <<"nt">> THEN "NTriples"
    ELSE IF x.some /\ x.ext \in {<<"owl">>, <<"rdf">>, <<"xml">>}
            /\ (Contains(content, "<?xml") \/ Contains(content, "<rdf:RDF"))
    THEN "RdfXml"
    ELSE "Turtle"

\* OntologyManager::detect_rdf_format; it has no failing path, so the value
\* is the format inside its Ok
detect_rdf_format(content, file_path) ==
    LET trimmed_content == Trim(content)
        ls == Lines(content)
        x == PathExtension(file_path)
    IN
    IF \/ StartsWith(trimmed_content, "@prefix")
       \/ StartsWith(trimmed_content, "@base")
       \/ Contains(content, "@prefix")
    THEN "Turtle"
    ELSE IF \/ StartsWith(trimmed_content, "<?xml")
            \/ StartsWith(trimmed_content, "<rdf:RDF")
            \/ Contains(content, "<rdf:RDF")
    THEN "RdfXml"
    ELSE IF \A i \in 1..Len(ls) : NTriplesLine(ls[i]) THEN "NTriples"
    ELSE IF x.some THEN ExtensionFormat(x.ext, content) ELSE "Turtle"

(***************************************************************************)
(* Results                                                                 *)
(***************************************************************************)

Ok(v) == [ok |-> TRUE, val |-> v]

Err(e) == [ok |-> FALSE, err |-> e]

\* OntologyError::OntologyLoadError { path, source }
OntologyLoadError(path) == [kind |-> "OntologyLoadError", path |-> path]

\* OntologyError::OntologyParseError { path, message }
OntologyParseError(path) == [kind |-> "OntologyParseError", path |-> path]

(***************************************************************************)
(* DomainConfig                                                            *)
(***************************************************************************)

\* DomainConfig::new
DomainConfig_new(domain_name, description) ==
    [domain_name |-> domain_name,
     description |-> description,
     supported_transaction_types |-> <<>>,
     validation_rules |-> <<>>]

\* Vec::contains
VecContains(v, x) == \E i \in 1..Len(v) : v[i] = x

add_transaction_type_always_push(d, transaction_type) ==
    [d EXCEPT !.supported_transaction_types = Append(@, transaction_type)]

\* DomainConfig::add_transaction_type
add_transaction_type(d, transaction_type) ==
    IF ~VecContains(d.supported_transaction_types, transaction_type)
    THEN [d EXCEPT !.supported_transaction_types = Append(@, transaction_type)]
    ELSE d

\* DomainConfig::add_validation_rule (HashMap::insert)
add_validation_rule(d, rule_name, rule_value) ==
    [d EXCEPT !.validation_rules =
        [k \in (DOMAIN @) \cup {rule_name} |->
            IF k = rule_name THEN rule_value ELSE @[k]]]

\* DomainConfig::supports_transaction_type
supports_transaction_type(d, transaction_type) ==
    VecContains(d.supported_transaction_types, transaction_type)

(***************************************************************************)
(* Domain config loader                                                    *)
(***************************************************************************)

\* the standard_types vector of load_domain_config
standard_types ==
    << <<"Production">>, <<"Processing">>, <<"Transport">>, <<"Quality">>,
       <<"Transfer">>, <<"Environmental">>, <<"Compliance">>, <<"Governance">> >>

\* line.split(marker).nth(1): the text between the first occurrence of the
\* marker and the next one (or the end of the line); the line contains it
SplitNth1(line, m) ==
    LET i == Find(line, m)
        rest == SubSeq(line, i + 1, Len(line))
        j == Find(rest, m)
    IN IF j = 0 THEN rest ELSE SubSeq(rest, 1, j - 1)

ExtractDescription_last_marker(d, ontology_content) ==
    LET at == {i \in 1..Len(ontology_content) :
                   ontology_content[i] = "rdfs:comment"}
    IN IF at = {} THEN d
       ELSE LET comment_start == CHOOSE i \in at : \A j \in at : j <= i
                q == FindFrom(ontology_content, "\"", comment_start)
            IN IF q = 0 THEN d
               ELSE LET quote_start == q + 1
                        e == FindFrom(ontology_content, "\"", quote_start)
                    IN IF e = 0 THEN d
                       ELSE [d EXCEPT !.description =
                                 SubSeq(ontology_content, quote_start, e - 1)]

\* the description block of extract_domain_info_from_ontology
ExtractDescription(d, ontology_content) ==
    LET comment_start == Find(ontology_content, "rdfs:comment") IN
    IF comment_start = 0 THEN d
    ELSE
        LET q == FindFrom(ontology_content, "\"", comment_start) IN
        IF q = 0 THEN d
        ELSE
            LET quote_start == q + 1
                e == FindFrom(ontology_content, "\"", quote_start)
            IN IF e = 0 THEN d
               ELSE [d EXCEPT !.description =
                        SubSeq(ontology_content, quote_start, e - 1)]

\* the body of the line loop of extract_domain_info_from_ontology
ExtractLine(d, line) ==
    LET d1 == IF Contains(line, "# Transaction type:")
              THEN add_transaction_type(d,
                       Trim(SplitNth1(line, "# Transaction type:")))
              ELSE d
    IN
    IF Contains(line, "# Validation rule:")
    THEN LET rule_part == SplitNth1(line, "# Validation rule:")
             eq == Find(rule_part, "=")
         IN IF eq = 0 THEN d1
            ELSE add_validation_rule(d1,
                     Trim(SubSeq(rule_part, 1, eq - 1)),
                     Trim(SubSeq(rule_part, eq + 1, Len(rule_part))))
    ELSE d1

RECURSIVE ExtractLines(_, _)
ExtractLines(d, ls) ==
    IF ls = <<>> THEN d ELSE ExtractLines(ExtractLine(d, Head(ls)), Tail(ls))

\* OntologyManager::extract_domain_info_from_ontology; it always returns
\* Ok(()), the value is the domain config it leaves
extract_domain_info_from_ontology(d, ontology_content) ==
    ExtractLines(ExtractDescription(d, ontology_content),
                 Lines(ontology_content))

RECURSIVE AddAll(_, _)
AddAll(d, types) ==
    IF types = <<>> THEN d
    ELSE AddAll(add_transaction_type(d, Head(types)), Tail(types))

(***************************************************************************)
(* Collaborators: the file system, the schema reference, validator, store  *)
(***************************************************************************)

\* a path with no file behind it
Missing == [state |-> "missing", text |-> <<>>, syntax |-> "none"]

\* a file that exists and cannot be read as text
Unreadable == [state |-> "unreadable", text |-> <<>>, syntax |-> "none"]

\* a readable file; syntax is the one serialization the parser accepts it in
File(text, syntax) == [state |-> "file", text |-> text, syntax |-> syntax]

\* Path::exists
PathExists(files, path) == files[path].state # "missing"

\* fs::read_to_string
read_to_string(files, path) ==
    IF files[path].state = "file" THEN Ok(files[path].text)
    ELSE Err("io")

\* OntologyConfig::domain_name; a reference with an empty name has none
domain_name(config) ==
    IF config.domain_name = <<>>
    THEN Err([kind |-> "ConfigError", path |-> <<>>])
    ELSE Ok(config.domain_name)

\* ShaclValidator::new over the state of the shape files
ShaclValidator_new(shapeFiles, core_shacl_path, domain_shacl_path, hash) ==
    IF shapeFiles = "bad" THEN Err("shacl")
    ELSE Ok([shapes |-> shapeFiles, ontology_hash |-> hash])

\* Store::new
Store_new == {}

\* Store::load_from_reader
load_from_reader(store, format, file) ==
    IF file.syntax = format
    THEN Ok(store \cup {[format |-> format, text |-> file.text]})
    ELSE Err("parse")

(***************************************************************************)
(* OntologyManager: construction, reload, duplication                      *)
(***************************************************************************)

\* no manager
NoManager == [present |-> FALSE]

\* the OntologyManager struct
Manager(config, domain_config, validator, ontology_store) ==
    [present |-> TRUE,
     config |-> config,
     domain_config |-> domain_config,
     validator |-> validator,
     ontology_store |-> ontology_store]

load_domain_config_read_required(files, config) ==
    LET n == domain_name(config) IN
    IF ~n.ok THEN Err(n.err)
    ELSE
        LET d0 == AddAll(DomainConfig_new(n.val,
                             <<"Domain configuration for ">> \o n.val),
                         standard_types)
            r == read_to_string(files, config.domain_ontology_path)
        IN IF r.ok THEN Ok(extract_domain_info_from_ontology(d0, r.val))
           ELSE Err(OntologyLoadError(config.domain_ontology_path))

\* OntologyManager::load_domain_config
load_domain_config(files, config) ==
    LET n == domain_name(config) IN
    IF ~n.ok THEN Err(n.err)
    ELSE
        LET d0 == AddAll(DomainConfig_new(n.val,
                             <<"Domain configuration for ">> \o n.val),
                         standard_types)
            r == read_to_string(files, config.domain_ontology_path)
        IN IF r.ok THEN Ok(extract_domain_info_from_ontology(d0, r.val))
           ELSE Ok(d0)

\* one file of load_ontology_store: read, detect the format, ingest
LoadFile(files, store, path) ==
    LET r == read_to_string(files, path) IN
    IF ~r.ok THEN Err(OntologyLoadError(path))
    ELSE
        LET format == detect_rdf_format(r.val, path)
            l == load_from_reader(store, format, files[path])
        IN IF l.ok THEN l ELSE Err(OntologyParseError(path))

load_ontology_store_core_required(files, config) ==
    LET core == LoadFile(files, Store_new, config.core_ontology_path) IN
    IF ~core.ok THEN core
    ELSE LoadFile(files, core.val, config.domain_ontology_path)

\* OntologyManager::load_ontology_store
load_ontology_store(files, config) ==
    LET core == IF PathExists(files, config.core_ontology_path)
                THEN LoadFile(files, Store_new, config.core_ontology_path)
                ELSE Ok(Store_new)
    IN IF ~core.ok THEN core
       ELSE LoadFile(files, core.val, config.domain_ontology_path)

\* OntologyManager::new
OntologyManager_new(files, shapeFiles, config) ==
    LET d == load_domain_config(files, config) IN
    IF ~d.ok THEN Err(d.err)
    ELSE
        LET v == ShaclValidator_new(shapeFiles, config.core_shacl_path,
                                    config.domain_shacl_path,
                                    config.ontology_hash)
        IN
        IF ~v.ok THEN Err(OntologyLoadError(<<"SHACL validator">>))
        ELSE
            LET st == load_ontology_store(files, config) IN
            IF ~st.ok THEN Err(st.err)
            ELSE Ok(Manager(config, d.val, v.val, st.val))

\* OntologyManager::reload: the manager it leaves and the result it returns
reload(m, files, shapeFiles) ==
    LET d == load_domain_config(files, m.config) IN
    IF ~d.ok THEN [mgr |-> m, res |-> Err(d.err)]
    ELSE
        LET m1 == [m EXCEPT !.domain_config = d.val]
            v == ShaclValidator_new(shapeFiles, m.config.core_shacl_path,
                                    m.config.domain_shacl_path,
                                    m.config.ontology_hash)
        IN
        IF ~v.ok
        THEN [mgr |-> m1,
              res |-> Err(OntologyLoadError(<<"SHACL validator reload">>))]
        ELSE
            LET m2 == [m1 EXCEPT !.validator = v.val]
                st == load_ontology_store(files, m.config)
            IN
            IF ~st.ok THEN [mgr |-> m2, res |-> Err(st.err)]
            ELSE [mgr |-> [m2 EXCEPT !.ontology_store = st.val],
                  res |-> Ok("unit")]

\* impl Clone for OntologyManager
clone(m, files) ==
    LET st == load_ontology_store(files, m.config) IN
    Manager(m.config, m.domain_config, m.validator,
            IF st.ok THEN st.val ELSE Store_new)

(***************************************************************************)
(* OntologyManager: read-only calls                                        *)
(***************************************************************************)

\* ConsistencyError::new(local_hash, network_hash, message); the message is
\* the format string with the domain name in it
ConsistencyError_new(local_hash, network_hash, message) ==
    [local_hash |-> local_hash,
     network_hash |-> network_hash,
     message |-> message]

check_ontology_consistency_swapped(m, network_hash) ==
    IF m.config.ontology_hash # network_hash
    THEN Err(ConsistencyError_new(
             network_hash,
             m.config.ontology_hash,
             <<"Local ontology '">> \o m.domain_config.domain_name \o
             <<"' does not match network ontology. All participants must use the same domain ontology.">>))
    ELSE Ok("unit")

\* OntologyManager::check_ontology_consistency
check_ontology_consistency(m, network_hash) ==
    IF m.config.ontology_hash # network_hash
    THEN Err(ConsistencyError_new(
             m.config.ontology_hash,
             network_hash,
             <<"Local ontology '">> \o m.domain_config.domain_name \o
             <<"' does not match network ontology. All participants must use the same domain ontology.">>))
    ELSE Ok("unit")

\* OntologyManager::get_ontology_hash
get_ontology_hash(m) == m.config.ontology_hash

\* OntologyManager::get_domain_name
get_domain_name(m) == m.domain_config.domain_name

\* OntologyManager::get_supported_transaction_types
get_supported_transaction_types(m) ==
    m.domain_config.supported_transaction_types

\* what Store::query answers: an error, solutions, a graph or a boolean; a
\* row is Ok(its rendered text) or Err (the iterator fails at that row)
QueryError == [kind |-> "Error"]

Solutions(rows) == [kind |-> "Solutions", rows |-> rows]

Graph(rows) == [kind |-> "Graph", rows |-> rows]

Boolean(b) == [kind |-> "Boolean", value |-> b]

\* the loops of query_ontology over the rows: every row's text and "\n",
\* or the error of the first failing row
RECURSIVE RenderRows(_, _, _)
RenderRows(rows, acc, errPath) ==
    IF rows = <<>> THEN Ok(acc)
    ELSE IF ~Head(rows).ok THEN Err(OntologyLoadError(errPath))
    ELSE RenderRows(Tail(rows), acc \o Head(rows).val \o <<"\n">>, errPath)

\* OntologyManager::query_ontology on the store's answer
query_ontology(answer) ==
    CASE answer.kind = "Error" ->
            Err(OntologyLoadError(<<"SPARQL query">>))
      [] answer.kind = "Solutions" ->
            RenderRows(answer.rows, <<>>, <<"SPARQL solution">>)
      [] answer.kind = "Graph" ->
            RenderRows(answer.rows, <<>>, <<"SPARQL quad">>)
      [] answer.kind = "Boolean" ->
            Ok(IF answer.value THEN <<"true">> ELSE <<"false">>)

\* A u32 is written as two 16-bit halves, [hi, lo] standing for
\* hi * 65536 + lo (a number of 32 bits is beyond the model checker's
\* integers); a sum of u32 is the same pair with hi left unreduced
Half == 65536

U32(hi, lo) == [hi |-> hi, lo |-> lo]

Zero == U32(0, 0)

\* u32::MAX
U32Max == U32(Half - 1, Half - 1)

\* the exact sum of two numbers in halves
Plus(x, y) ==
    U32(x.hi + y.hi + ((x.lo + y.lo) \div Half), (x.lo + y.lo) % Half)

\* whether a number in halves fits a u32
FitsU32(x) == x.hi < Half

\* the low 32 bits of a number in halves
WrapU32(x) == U32(x.hi % Half, x.lo)

Digits == {"0", "1", "2", "3", "4", "5", "6", "7", "8", "9"}

DigitValue(a) ==
    CASE a = "0" -> 0 [] a = "1" -> 1 [] a = "2" -> 2 [] a = "3" -> 3
      [] a = "4" -> 4 [] a = "5" -> 5 [] a = "6" -> 6 [] a = "7" -> 7
      [] a = "8" -> 8 [] a = "9" -> 9

\* acc * 10 + d in halves
TimesTenPlus(acc, d) ==
    U32(acc.hi * 10 + ((acc.lo * 10 + d) \div Half), (acc.lo * 10 + d) % Half)

\* the digit loop of u32::from_str: an error on a non-digit or on overflow
RECURSIVE ParseDigits(_, _)
ParseDigits(s, acc) ==
    IF s = <<>> THEN Ok(acc)
    ELSE IF Head(s) \notin Digits THEN Err("InvalidDigit")
    ELSE LET v == TimesTenPlus(acc, DigitValue(Head(s))) IN
         IF ~FitsU32(v) THEN Err("PosOverflow") ELSE ParseDigits(Tail(s), v)

\* str::parse::<u32>: digits with an optional leading '+'
ParseU32(s) ==
    LET digits == IF s # <<>> /\ Head(s) = "+" THEN Tail(s) ELSE s IN
    IF digits = <<>> THEN Err("Empty") ELSE ParseDigits(digits, Zero)

\* OntologyStats::new
OntologyStats_new ==
    [class_count |-> Zero, property_count |-> Zero, individual_count |-> Zero]

\* one count block of get_ontology_stats: the count it stores, cur when it
\* stores none
CountFrom(answer, cur) ==
    LET result == query_ontology(answer) IN
    IF ~result.ok THEN cur
    ELSE LET ls == Lines(result.val) IN
         IF ls = <<>> THEN cur
         ELSE LET count == ParseU32(Trim(ls[1])) IN
              IF count.ok THEN count.val ELSE cur

get_ontology_stats_fail_fast(class_answer, property_answer, individual_answer) ==
    IF ~query_ontology(class_answer).ok
    THEN Err(query_ontology(class_answer).err)
    ELSE Ok([class_count |-> CountFrom(class_answer, Zero),
             property_count |-> CountFrom(property_answer, Zero),
             individual_count |-> CountFrom(individual_answer, Zero)])

\* OntologyManager::get_ontology_stats on the store's answers to its queries
get_ontology_stats(class_answer, property_answer, individual_answer) ==
    LET stats == OntologyStats_new IN
    Ok([class_count |-> CountFrom(class_answer, stats.class_count),
        property_count |-> CountFrom(property_answer, stats.property_count),
        individual_count |->
            CountFrom(individual_answer, stats.individual_count)])

total_entities_two_counts(stats) ==
    LET sum == Plus(stats.class_count, stats.property_count) IN
    IF FitsU32(sum) THEN {Ok(sum)} ELSE {Err("panic"), Ok(WrapU32(sum))}

\* OntologyStats::total_entities: the outcomes a build can produce; u32
\* addition that overflows panics with overflow checks and wraps without
total_entities(stats) ==
    LET sum == Plus(Plus(stats.class_count, stats.property_count),
                    stats.individual_count)
    IN IF FitsU32(sum) THEN {Ok(sum)} ELSE {Err("panic"), Ok(WrapU32(sum))}

(***************************************************************************)
(* The environment of the manager: sample files, references, answers       *)
(***************************************************************************)

CorePath == <<"core", ".", "owl">>

DomainPath == <<"domain", ".", "owl">>

Paths == {CorePath, DomainPath}

CoreText == <<"@prefix", " ", "core", " ", ".", "\n">>

TurtleText ==
    <<"@prefix", " ", "a", " ", ".", "\n",
      "# Transaction type:", " ", "Recall", "\n">>

XmlText ==
    <<"<?xml", "\n", "<rdf:RDF", " ", "rdfs:comment", " ",
      "\"", "Dairy", "\"", "\n">>

PlainText ==
    <<"a", " ", "b", "\n", "# Validation rule:", " ", "max", "=", "100">>

CoreFiles ==
    {Missing, Unreadable, File(CoreText, "Turtle"), File(CoreText, "none")}

DomainFiles ==
    {Missing, File(TurtleText, "Turtle"), File(XmlText, "RdfXml"),
     File(PlainText, "none")}

FilesAt(path) == IF path = CorePath THEN CoreFiles ELSE DomainFiles

ShapeStates == {"bad", "v1", "v2"}

Hashes == {"h1", "h2"}

\* the OntologyConfig values: the paths are fixed, the hash and the name vary
Config(hash, name) ==
    [ontology_hash |-> hash,
     domain_name |-> name,
     core_ontology_path |-> CorePath,
     domain_ontology_path |-> DomainPath,
     core_shacl_path |-> <<"core_shapes", ".", "ttl">>,
     domain_shacl_path |-> <<"domain_shapes", ".", "ttl">>]

Configs ==
    {Config("h1", <<"uht">>), Config("h2", <<"uht">>), Config("h1", <<>>)}

\* the references the single manager of Spec is built from
MainConfigs == {Config("h1", <<"uht">>), Config("h1", <<>>)}

Slots == {1, 2}

PeerHashes == Hashes \cup {"H1"}

\* what the validator answers to validate_transaction
ValidationOutcomes == {Ok("conforms"), Ok("violations"), Err("ValidationError")}

RdfSamples == {<<"a", " ", ".">>}

Rows ==
    {<<>>, <<"7">>, <<" ", "1", "2", " ">>, <<"+", "7">>, <<"-", "7">>,
     <<"x">>, <<"+">>, <<"7", "x">>, <<"0", "1", "2">>, <<"7", " ", "7">>,
     <<"4", "2", "9", "4", "9", "6", "7", "2", "9", "5">>,
     <<"4", "2", "9", "4", "9", "6", "7", "2", "9", "6">>}

Answers ==
    {QueryError, Solutions(<<>>), Boolean(TRUE), Graph(<<Ok(<<"7">>)>>),
     Solutions(<<Err("eval")>>), Solutions(<<Ok(<<"7">>), Err("eval")>>),
     Solutions(<<Ok(<<"x">>), Ok(<<"7">>)>>)}
    \cup {Solutions(<<Ok(r)>>) : r \in Rows}

FewAnswers == {QueryError, Solutions(<<Ok(<<"7">>)>>)}

Queries == {"SELECT", "ASK"}

(***************************************************************************)
(* Actions on a manager                                                    *)
(***************************************************************************)

Idle == [op |-> "none"]

\* the environment replaces, creates or removes an ontology file
WriteFile(path, f) ==
    /\ fs[path] # f
    /\ fs' = [fs EXCEPT ![path] = f]
    /\ last' = [op |-> "env"]
    /\ UNCHANGED <<shapes, mgr, arg, ret, dc, added>>

\* the environment replaces or breaks the shape files
WriteShapes(v) ==
    /\ shapes # v
    /\ shapes' = v
    /\ last' = [op |-> "env"]
    /\ UNCHANGED <<fs, mgr, arg, ret, dc, added>>

\* let m = OntologyManager::new(config)
New(s, config) ==
    /\ ~mgr[s].present
    /\ LET r == OntologyManager_new(fs, shapes, config) IN
       /\ mgr' = [mgr EXCEPT ![s] = IF r.ok THEN r.val ELSE NoManager]
       /\ last' = [op |-> "new", slot |-> s, config |-> config,
                   res |-> IF r.ok THEN Ok("manager") ELSE r]
    /\ UNCHANGED <<fs, shapes, arg, ret, dc, added>>

\* the manager goes out of scope
Drop(s) ==
    /\ mgr[s].present
    /\ mgr' = [mgr EXCEPT ![s] = NoManager]
    /\ last' = [op |-> "drop"]
    /\ UNCHANGED <<fs, shapes, arg, ret, dc, added>>

\* m.reload()
Reload(s) ==
    /\ mgr[s].present
    /\ LET r == reload(mgr[s], fs, shapes) IN
       /\ mgr' = [mgr EXCEPT ![s] = r.mgr]
       /\ last' = [op |-> "reload", slot |-> s, res |-> r.res]
    /\ UNCHANGED <<fs, shapes, arg, ret, dc, added>>

\* m.clone(); the copy is the value of the call
Clone(s) ==
    /\ mgr[s].present
    /\ last' = [op |-> "clone", slot |-> s, copy |-> clone(mgr[s], fs)]
    /\ UNCHANGED <<fs, shapes, mgr, arg, ret, dc, added>>

\* m.check_ontology_consistency(network_hash)
CheckOntologyConsistency(s, network_hash) ==
    /\ mgr[s].present
    /\ last' = [op |-> "check", slot |-> s, peer |-> network_hash,
                res |-> check_ontology_consistency(mgr[s], network_hash)]
    /\ UNCHANGED <<fs, shapes, mgr, arg, ret, dc, added>>

\* m.validate_transaction(rdf_data): what the validator answers
ValidateTransaction(s, rdf_data, outcome) ==
    /\ mgr[s].present
    /\ last' = [op |-> "validate", slot |-> s, res |-> outcome]
    /\ UNCHANGED <<fs, shapes, mgr, arg, ret, dc, added>>

\* m.query_ontology(sparql_query), the store answering `answer`
QueryOntology(s, sparql_query, answer) ==
    /\ mgr[s].present
    /\ last' = [op |-> "query", slot |-> s, answer |-> answer,
                res |-> query_ontology(answer)]
    /\ UNCHANGED <<fs, shapes, mgr, arg, ret, dc, added>>

GetOntologyStatsReloading(s, a1, a2, a3) ==
    /\ mgr[s].present
    /\ last' = [op |-> "stats", slot |-> s, answers |-> <<a1, a2, a3>>,
                res |-> get_ontology_stats(a1, a2, a3)]
    /\ mgr' = [mgr EXCEPT ![s] = reload(mgr[s], fs, shapes).mgr]
    /\ UNCHANGED <<fs, shapes, arg, ret, dc, added>>

\* m.get_ontology_stats(), the store answering a1, a2, a3 to the three
\* queries
GetOntologyStats(s, a1, a2, a3) ==
    /\ mgr[s].present
    /\ last' = [op |-> "stats", slot |-> s, answers |-> <<a1, a2, a3>>,
                res |-> get_ontology_stats(a1, a2, a3)]
    /\ UNCHANGED <<fs, shapes, mgr, arg, ret, dc, added>>

\* m.get_ontology_hash()
GetOntologyHash(s) ==
    /\ mgr[s].present
    /\ last' = [op |-> "hash", slot |-> s, val |-> get_ontology_hash(mgr[s])]
    /\ UNCHANGED <<fs, shapes, mgr, arg, ret, dc, added>>

\* m.get_domain_name()
GetDomainName(s) ==
    /\ mgr[s].present
    /\ last' = [op |-> "name", slot |-> s, val |-> get_domain_name(mgr[s])]
    /\ UNCHANGED <<fs, shapes, mgr, arg, ret, dc, added>>

\* m.get_supported_transaction_types()
GetSupportedTransactionTypes(s) ==
    /\ mgr[s].present
    /\ last' = [op |-> "types", slot |-> s,
                val |-> get_supported_transaction_types(mgr[s])]
    /\ UNCHANGED <<fs, shapes, mgr, arg, ret, dc, added>>

(***************************************************************************)
(* Spec: one manager over a changing file system                           *)
(***************************************************************************)

Init ==
    /\ fs = [p \in Paths |-> Missing]
    /\ shapes = "bad"
    /\ mgr = [s \in Slots |-> NoManager]
    /\ last = Idle
    /\ arg = Idle
    /\ ret = Idle
    /\ dc = Idle
    /\ added = <<>>

Next ==
    \/ \E p \in Paths : \E f \in FilesAt(p) : WriteFile(p, f)
    \/ \E v \in ShapeStates : WriteShapes(v)
    \/ \E c \in MainConfigs : New(1, c)
    \/ Drop(1)
    \/ Reload(1)
    \/ Clone(1)
    \/ \E h \in PeerHashes : CheckOntologyConsistency(1, h)
    \/ \E r \in RdfSamples : \E o \in ValidationOutcomes :
           ValidateTransaction(1, r, o)
    \/ \E q \in Queries : \E a \in FewAnswers : QueryOntology(1, q, a)
    \/ \E a \in FewAnswers : GetOntologyStats(1, a, QueryError, a)
    \/ GetOntologyHash(1)
    \/ GetDomainName(1)
    \/ GetSupportedTransactionTypes(1)

Spec == Init /\ [][Next]_vars

(***************************************************************************)
(* Claims about the manager over a changing file system (Spec)             *)
(***************************************************************************)

\* C1: a reload that fails leaves the manager exactly as it was before the
\* call: domain config, validator and store are all the old ones.
ReloadIsAtomic ==
    [][(last'.op = "reload" /\ ~last'.res.ok) => mgr' = mgr]_vars

\* the document the store holds for a parsed file
Doc(file, path) ==
    [format |-> detect_rdf_format(file.text, path), text |-> file.text]

\* a file the store accepts: readable, and in the syntax detected for it
Loads(file, path) ==
    file.state = "file" /\ file.syntax = detect_rdf_format(file.text, path)

\* C2: construction returns a manager whose domain config, validator and
\* store are all derived from the reference, or the error of the first
\* failing sub-step and no manager; a missing core file is skipped, a domain
\* file that cannot be read or parsed fails construction although the domain
\* config loader succeeds without it.
ConstructAllOrNothing ==
    last.op = "new" =>
        LET c == last.config
            m == mgr[last.slot]
            core == fs[c.core_ontology_path]
            dom == fs[c.domain_ontology_path]
            nameOk == c.domain_name # <<>>
            valOk == shapes # "bad"
            coreOk == core.state = "missing"
                          \/ Loads(core, c.core_ontology_path)
            domOk == Loads(dom, c.domain_ontology_path)
        IN
        /\ (nameOk /\ valOk /\ coreOk /\ domOk) =>
              /\ last.res.ok
              /\ m.present
              /\ m.config = c
              /\ m.domain_config = load_domain_config(fs, c).val
              /\ m.validator =
                     [shapes |-> shapes, ontology_hash |-> c.ontology_hash]
              /\ m.ontology_store =
                     (IF core.state = "missing" THEN {}
                      ELSE {Doc(core, c.core_ontology_path)})
                     \cup {Doc(dom, c.domain_ontology_path)}
        /\ ~(nameOk /\ valOk /\ coreOk /\ domOk) =>
              /\ ~last.res.ok
              /\ ~m.present
              /\ last.res.err =
                   (IF ~nameOk THEN [kind |-> "ConfigError", path |-> <<>>]
                    ELSE IF ~valOk
                    THEN OntologyLoadError(<<"SHACL validator">>)
                    ELSE IF ~coreOk
                    THEN IF core.state = "file"
                         THEN OntologyParseError(c.core_ontology_path)
                         ELSE OntologyLoadError(c.core_ontology_path)
                    ELSE IF dom.state = "file"
                         THEN OntologyParseError(c.domain_ontology_path)
                         ELSE OntologyLoadError(c.domain_ontology_path))
        /\ (nameOk /\ dom.state # "file") =>
              load_domain_config(fs, c).ok /\ ~last.res.ok

\* C2 witness: construction with a missing core file and a missing domain
\* file, everything else in order, has failed on the domain file.
ConstructFailedOnMissingDomain ==
    /\ last.op = "new"
    /\ last.config.domain_name # <<>>
    /\ shapes # "bad"
    /\ fs[CorePath].state = "missing"
    /\ fs[DomainPath].state = "missing"
    /\ ~last.res.ok
    /\ last.res.err = OntologyLoadError(DomainPath)

\* C3: a duplicate never holds an empty store in place of the ontology the
\* original has loaded; its store is the one derived again from the
\* reference.
CloneNeverEmptyStore ==
    last.op = "clone" =>
        LET st == load_ontology_store(fs, mgr[last.slot].config) IN
        /\ st.ok => last.copy.ontology_store = st.val
        /\ ~(/\ last.copy.ontology_store = {}
             /\ mgr[last.slot].ontology_store # {})

ReadOnlyOps == {"check", "validate", "query", "stats", "hash", "name", "types"}

\* C6: validate_transaction, query_ontology, check_ontology_consistency,
\* get_ontology_stats and the accessors leave the manager's reference,
\* domain config, validator and store unchanged, succeeding or failing, so
\* the accessors answer the same after the call as before it.
ReadOnlyCallsChangeNothing ==
    [][last'.op \in ReadOnlyOps =>
          /\ mgr' = mgr
          /\ get_ontology_hash(mgr'[last'.slot])
                 = get_ontology_hash(mgr[last'.slot])
          /\ get_domain_name(mgr'[last'.slot])
                 = get_domain_name(mgr[last'.slot])
          /\ get_supported_transaction_types(mgr'[last'.slot])
                 = get_supported_transaction_types(mgr[last'.slot])]_vars

\* C6 witness: a query has failed on a manager whose domain config comes
\* from a domain file with an annotation in it.
QueryFailedOnLoadedManager ==
    /\ last.op = "query"
    /\ ~last.res.ok
    /\ mgr[last.slot].present
    /\ Len(get_supported_transaction_types(mgr[last.slot])) > Len(standard_types)

(***************************************************************************)
(* SpecPeers: two managers built from two references                       *)
(***************************************************************************)

\* the file systems every reference of Configs with a name builds on
GoodFileSystems ==
    {f \in [Paths -> CoreFiles \cup DomainFiles] :
        /\ f[CorePath] \in CoreFiles
        /\ f[DomainPath] \in DomainFiles
        /\ load_ontology_store(f, Config("h1", <<"uht">>)).ok}

NamedConfigs == {c \in Configs : domain_name(c).ok}

InitPeers ==
    /\ fs \in GoodFileSystems
    /\ shapes \in ShapeStates \ {"bad"}
    /\ \E c1 \in NamedConfigs : \E c2 \in NamedConfigs :
           mgr = [s \in Slots |->
                     OntologyManager_new(fs, shapes,
                                         IF s = 1 THEN c1 ELSE c2).val]
    /\ last = Idle
    /\ arg = Idle
    /\ ret = Idle
    /\ dc = Idle
    /\ added = <<>>

NextPeers ==
    \/ \E s \in Slots : \E h \in PeerHashes : CheckOntologyConsistency(s, h)
    \/ \E s \in Slots : \E t \in Slots \ {s} :
           CheckOntologyConsistency(s, get_ontology_hash(mgr[t]))
    \/ \E s \in Slots : GetOntologyHash(s)
    \/ \E s \in Slots : GetDomainName(s)

SpecPeers == InitPeers /\ [][NextPeers]_vars

\* whether text `part` occurs in text `whole`
Occurs(part, whole) ==
    \E i \in 1..(Len(whole) - Len(part) + 1) :
        SubSeq(whole, i, i + Len(part) - 1) = part

\* C4: check_ontology_consistency(peer_hash) succeeds exactly when the
\* manager's own hash equals peer_hash; on a mismatch the error carries the
\* local hash and the peer hash, in that order and unchanged, and a message
\* with the manager's domain name; of two managers with different hashes,
\* each one's check against the other's hash fails.
ConsistencyIffEqualHashes ==
    last.op = "check" =>
        LET m == mgr[last.slot]
            other == mgr[3 - last.slot]
        IN
        /\ last.res.ok <=> (m.config.ontology_hash = last.peer)
        /\ ~last.res.ok =>
              /\ last.res.err.local_hash = m.config.ontology_hash
              /\ last.res.err.network_hash = last.peer
              /\ Occurs(m.domain_config.domain_name, last.res.err.message)
        /\ (/\ other.present
            /\ other.config.ontology_hash # m.config.ontology_hash
            /\ last.peer = other.config.ontology_hash) => ~last.res.ok

\* C4 witness: of two managers with different hashes, one has checked the
\* other's hash and got the error.
PeerCheckFailed ==
    /\ last.op = "check"
    /\ mgr[1].config.ontology_hash # mgr[2].config.ontology_hash
    /\ last.peer = mgr[3 - last.slot].config.ontology_hash
    /\ ~last.res.ok

(***************************************************************************)
(* SpecStats: statistics and queries on a built manager                    *)
(***************************************************************************)

\* The store of a built manager answers the three fixed queries of
\* get_ontology_stats the same way at every call: arg holds its answers.
InitStats ==
    /\ fs \in {f \in GoodFileSystems : f[CorePath] = Missing}
    /\ shapes = "v1"
    /\ mgr = [s \in Slots |->
                 IF s = 1
                 THEN OntologyManager_new(fs, shapes,
                                          Config("h1", <<"uht">>)).val
                 ELSE NoManager]
    /\ last = Idle
    /\ arg \in [op : {"answers"}, answers : Answers \X Answers \X Answers]
    /\ ret = Idle
    /\ dc = Idle
    /\ added = <<>>

NextStats ==
    \/ GetOntologyStats(1, arg.answers[1], arg.answers[2], arg.answers[3])
    \/ \E q \in Queries : \E a \in FewAnswers : QueryOntology(1, q, a)

SpecStats == InitStats /\ [][NextStats]_vars

\* the first row of an answer, as the text of an unsigned number: nothing
\* but digits after an optional '+' and blanks around it
RECURSIVE AllDigits(_)
AllDigits(s) == s = <<>> \/ (Head(s) \in Digits /\ AllDigits(Tail(s)))

LooksUnsigned(row) ==
    LET t == Trim(row)
        d == IF t # <<>> /\ Head(t) = "+" THEN Tail(t) ELSE t
    IN d # <<>> /\ AllDigits(d)

\* an answer from which no count can be read: the query fails, a row fails,
\* there is no row, or the first row is no unsigned number
NoCount(a) ==
    \/ a.kind = "Error"
    \/ a.kind \in {"Solutions", "Graph"} /\ a.rows = <<>>
    \/ a.kind \in {"Solutions", "Graph"}
           /\ \E i \in 1..Len(a.rows) : ~a.rows[i].ok
    \/ a.kind \in {"Solutions", "Graph"} /\ a.rows # <<>> /\ a.rows[1].ok
           /\ ~LooksUnsigned(a.rows[1].val)

\* C5: get_ontology_stats always returns stats, never an error; each count
\* whose query fails, has no row or has a first row that is no unsigned
\* integer is zero, whatever the other two queries do, and each count
\* depends on its own query only.
StatsNeverFail ==
    last.op = "stats" =>
        /\ last.res.ok
        /\ NoCount(last.answers[1]) => last.res.val.class_count = Zero
        /\ NoCount(last.answers[2]) => last.res.val.property_count = Zero
        /\ NoCount(last.answers[3]) => last.res.val.individual_count = Zero
        /\ last.answers[1] = Solutions(<<Ok(<<"7">>)>>)
               => last.res.val.class_count = U32(0, 7)
        /\ last.answers[2] = Solutions(<<Ok(<<" ", "1", "2", " ">>)>>)
               => last.res.val.property_count = U32(0, 12)
        /\ last.answers[3] = Solutions(<<Ok(<<"+", "7">>)>>)
               => last.res.val.individual_count = U32(0, 7)

\* C5 witness: the class query has failed and the individual query has no
\* row, and the property count is still the 12 its own query answered.
StatsWithFailedQueries ==
    /\ last.op = "stats"
    /\ last.answers[1] = QueryError
    /\ last.answers[2] = Solutions(<<Ok(<<" ", "1", "2", " ">>)>>)
    /\ last.answers[3] = Solutions(<<>>)
    /\ last.res.ok
    /\ last.res.val = [class_count |-> Zero, property_count |-> U32(0, 12),
                       individual_count |-> Zero]

(***************************************************************************)
(* SpecDetect: the format detector on every short content                  *)
(***************************************************************************)

MaxContentLen == 3

ContentAtoms ==
    {"@prefix", "@base", "<?xml", "<rdf:RDF", " ", ".", "#", "\n", "a"}

\* the texts of at most n atoms
Texts(atoms, n) == UNION {[1..k -> atoms] : k \in 0..n}

DetectPaths ==
    {<<"a", ".", e>> : e \in {"nq", "NQ", "nt", "NT", "owl", "OWL", "rdf",
                              "xml", "ttl", "turtle", "txt"}}
    \cup {<<>>, <<"a">>, <<".", "nq">>, <<"a", ".">>,
          <<"a", ".", "nq", ".", "bak">>}

InitDetect ==
    /\ arg \in [op : {"detect"}, content : Texts(ContentAtoms, MaxContentLen),
                path : DetectPaths]
    /\ ret = Idle
    /\ fs = [p \in Paths |-> Missing]
    /\ shapes = "bad"
    /\ mgr = [s \in Slots |-> NoManager]
    /\ last = Idle
    /\ dc = Idle
    /\ added = <<>>

\* OntologyManager::detect_rdf_format(content, file_path)
DetectRdfFormat ==
    /\ ret = Idle
    /\ ret' = [op |-> "detect",
               format |-> detect_rdf_format(arg.content, arg.path)]
    /\ UNCHANGED <<fs, shapes, mgr, last, arg, dc, added>>

NextDetect == DetectRdfFormat

SpecDetect == InitDetect /\ [][NextDetect]_vars

\* C7: content with "@prefix" anywhere in it is Turtle for every path,
\* whatever the extension and whatever else the content holds.
PrefixIsTurtle ==
    (ret.op = "detect" /\ Contains(arg.content, "@prefix"))
        => ret.format = "Turtle"

\* C7 witness: "@prefix ." on its own line, under a .nt path, is Turtle.
PrefixUnderNtPath ==
    /\ ret.op = "detect"
    /\ arg.content = <<"@prefix", " ", ".">>
    /\ arg.path = <<"a", ".", "nt">>
    /\ ret.format = "Turtle"

\* the content rules, in the words of the format rules
TurtleMarked(c) ==
    Contains(c, "@prefix") \/ StartsWith(Trim(c), "@prefix")
        \/ StartsWith(Trim(c), "@base")

XmlMarked(c) ==
    StartsWith(Trim(c), "<?xml") \/ StartsWith(Trim(c), "<rdf:RDF")
        \/ Contains(c, "<rdf:RDF")

\* a line that after trimming is not empty, is no comment and does not end
\* in " ."
OtherLine(line) ==
    /\ Trim(line) # <<>>
    /\ ~StartsWithHash(Trim(line))
    /\ ~EndsWithSpaceDot(Trim(line))

HasOtherLine(c) == \E i \in 1..Len(Lines(c)) : OtherLine(Lines(c)[i])

\* no Turtle or XML marker anywhere in the content
NoMarkers(c) ==
    \A m \in {"@prefix", "@base", "<?xml", "<rdf:RDF"} : ~Contains(c, m)

\* the path ends in '.' and the word e, in any case
PathEndsWith(path, e) ==
    /\ Len(path) >= 2
    /\ path[Len(path) - 1] = "."
    /\ LowerAtom(path[Len(path)]) = e

\* the path has extension e, in any case
HasExtension(path, e) ==
    PathExtension(path).some /\ ToLowercase(PathExtension(path).ext) = <<e>>

\* C8, as stated: the detector always returns a format, and a path ending
\* ".nq" with content that has no Turtle/XML marker and has a non-comment
\* line not ending in " ." is N-Quads.
NqPathIsNQuads ==
    ret.op = "detect" =>
        /\ ret.format \in Formats
        /\ (/\ PathEndsWith(arg.path, "nq")
            /\ NoMarkers(arg.content)
            /\ \E i \in 1..Len(Lines(arg.content)) :
                   LET l == Trim(Lines(arg.content)[i]) IN
                   ~StartsWithHash(l) /\ ~EndsWithSpaceDot(l))
               => ret.format = "NQuads"

\* C8, amended: the detector always returns a format; when no content rule
\* matches (no Turtle marker, no XML marker, and a line that after trimming
\* is non-empty, no comment and not ending in " .") the format follows the
\* extension of the path, in any case: nq is N-Quads, nt is N-Triples,
\* owl/rdf/xml is RDF/XML when the content holds "<?xml" and Turtle when
\* not, anything else or no extension is Turtle.
FallbackFollowsExtension ==
    ret.op = "detect" =>
        /\ ret.format \in Formats
        /\ (/\ ~TurtleMarked(arg.content)
            /\ ~XmlMarked(arg.content)
            /\ HasOtherLine(arg.content))
           => ret.format =
                (IF HasExtension(arg.path, "nq") THEN "NQuads"
                 ELSE IF HasExtension(arg.path, "nt") THEN "NTriples"
                 ELSE IF /\ \E e \in {"owl", "rdf", "xml"} :
                                HasExtension(arg.path, e)
                         /\ Contains(arg.content, "<?xml")
                 THEN "RdfXml"
                 ELSE "Turtle")

\* C8 witness: the text "a" under the path a.NQ is N-Quads.
UpperCaseNqPath ==
    /\ ret.op = "detect"
    /\ arg.content = <<"a">>
    /\ arg.path = <<"a", ".", "NQ">>
    /\ ret.format = "NQuads"

(***************************************************************************)
(* SpecTotals: total_entities on sample counts                             *)
(***************************************************************************)

\* 0, 5, 10, 20, 2^31 and u32::MAX
CountSamples ==
    {Zero, U32(0, 5), U32(0, 10), U32(0, 20), U32(Half \div 2, 0), U32Max}

InitTotals ==
    /\ arg \in [op : {"stats"}, class_count : CountSamples,
                property_count : CountSamples,
                individual_count : CountSamples]
    /\ ret = Idle
    /\ fs = [p \in Paths |-> Missing]
    /\ shapes = "bad"
    /\ mgr = [s \in Slots |-> NoManager]
    /\ last = Idle
    /\ dc = Idle
    /\ added = <<>>

\* stats.total_entities(), in a build with or without overflow checks
TotalEntities ==
    /\ ret = Idle
    /\ \E r \in total_entities(arg) : ret' = [op |-> "total", res |-> r]
    /\ UNCHANGED <<fs, shapes, mgr, last, arg, dc, added>>

NextTotals == TotalEntities

SpecTotals == InitTotals /\ [][NextTotals]_vars

\* C9: total_entities returns exactly class_count + property_count +
\* individual_count for every stats value, the all-zero one and the ones
\* whose sum is beyond 32 bits included: it neither wraps nor aborts.
TotalIsExactSum ==
    ret.op = "total" =>
        /\ ret.res.ok
        /\ ret.res.val = Plus(Plus(arg.class_count, arg.property_count),
                              arg.individual_count)

(***************************************************************************)
(* SpecDomainConfig: a fresh DomainConfig and calls on it                  *)
(***************************************************************************)

MaxCalls == 4

TxTypes == {<<"Production">>, <<"production">>, <<"Recall">>}

RuleCalls ==
    {[kind |-> "rule", name |-> <<"max">>, value |-> <<"100">>],
     [kind |-> "rule", name |-> <<"max">>, value |-> <<"0">>],
     [kind |-> "rule", name |-> <<"min">>, value |-> <<"0">>]}

InitDomainConfig ==
    /\ dc = DomainConfig_new(<<"test_domain">>, <<"Test domain description">>)
    /\ added = <<>>
    /\ arg = Idle
    /\ ret = Idle
    /\ fs = [p \in Paths |-> Missing]
    /\ shapes = "bad"
    /\ mgr = [s \in Slots |-> NoManager]
    /\ last = Idle

\* config.add_transaction_type(t); added records the calls made
AddTransactionType(t) ==
    /\ Len(added) < MaxCalls
    /\ dc' = add_transaction_type(dc, t)
    /\ added' = Append(added, [kind |-> "type", name |-> t, value |-> <<>>])
    /\ UNCHANGED <<fs, shapes, mgr, last, arg, ret>>

\* config.add_validation_rule(name, value)
AddValidationRule(call) ==
    /\ Len(added) < MaxCalls
    /\ dc' = add_validation_rule(dc, call.name, call.value)
    /\ added' = Append(added, call)
    /\ UNCHANGED <<fs, shapes, mgr, last, arg, ret>>

NextDomainConfig ==
    \/ \E t \in TxTypes : AddTransactionType(t)
    \/ \E call \in RuleCalls : AddValidationRule(call)

SpecDomainConfig == InitDomainConfig /\ [][NextDomainConfig]_vars

\* the types of the add_transaction_type calls among the first n calls, each
\* once, in the order of its first call
RECURSIVE FirstAdds(_, _)
FirstAdds(calls, n) ==
    IF n = 0 THEN <<>>
    ELSE LET before == FirstAdds(calls, n - 1) IN
         IF calls[n].kind = "type"
            /\ \A i \in 1..(n - 1) :
                   ~(calls[i].kind = "type" /\ calls[i].name = calls[n].name)
         THEN Append(before, calls[n].name)
         ELSE before

\* C10: a fresh DomainConfig has no transaction type and no rule; after any
\* calls of add_transaction_type the sequence has no duplicate, lists the
\* types in the order of their first insertion, supports_transaction_type(t)
\* holds exactly for the types added (to the letter, case included), and
\* adding a type again changes nothing.
TypesAreFirstInsertions ==
    LET types == dc.supported_transaction_types IN
    /\ added = <<>> => (types = <<>> /\ dc.validation_rules = <<>>)
    /\ \A i \in 1..Len(types) : \A j \in 1..Len(types) :
           types[i] = types[j] => i = j
    /\ types = FirstAdds(added, Len(added))
    /\ \A t \in TxTypes \cup {<<"Unknown">>} :
           supports_transaction_type(dc, t)
               <=> \E i \in 1..Len(added) :
                       added[i].kind = "type" /\ added[i].name = t
    /\ \A i \in 1..Len(types) : add_transaction_type(dc, types[i]) = dc

\* C10 witness: Production, production, Production were added in that order
\* and the sequence is Production, production.
AddedTwice ==
    /\ Len(added) = 3
    /\ added[1].name = <<"Production">> /\ added[1].kind = "type"
    /\ added[2].name = <<"production">> /\ added[2].kind = "type"
    /\ added[3] = added[1]
    /\ dc.supported_transaction_types = << <<"Production">>, <<"production">> >>

(***************************************************************************)
(* SpecLoader: the domain config loader on every short ontology text       *)
(***************************************************************************)

MaxOntologyLen == 5

\* the atoms of the annotation lines and of the description annotation
TypeAtoms == {"# Transaction type:", "\n", " ", "Recall", "Production"}

DescriptionAtoms == {"rdfs:comment", "\"", "a", "b", " "}

LoaderTexts ==
    Texts(TypeAtoms, MaxOntologyLen) \cup Texts(DescriptionAtoms, MaxOntologyLen)

\* the domain ontology file is missing, unreadable, or holds a short text;
\* the reference has a domain name or none
InitLoader ==
    /\ \E f \in {Missing, Unreadable} \cup {File(t, "none") : t \in LoaderTexts} :
           fs = [p \in Paths |-> IF p = DomainPath THEN f ELSE Missing]
    /\ arg \in [op : {"load"},
                config : {Config("h1", <<"uht">>), Config("h1", <<>>)}]
    /\ ret = Idle
    /\ shapes = "bad"
    /\ mgr = [s \in Slots |-> NoManager]
    /\ last = Idle
    /\ dc = Idle
    /\ added = <<>>

\* OntologyManager::load_domain_config(&config)
LoadDomainConfig ==
    /\ ret = Idle
    /\ ret' = [op |-> "load", res |-> load_domain_config(fs, arg.config)]
    /\ UNCHANGED <<fs, shapes, mgr, last, arg, dc, added>>

NextLoader == LoadDomainConfig

SpecLoader == InitLoader /\ [][NextLoader]_vars

\* the least number of a non-empty set of numbers
Least(S) == CHOOSE x \in S : \A y \in S : x <= y

\* the name a line with the transaction-type marker gives: the text after
\* the first marker of the line, up to the next marker if there is one,
\* trimmed
AnnotatedName(line) ==
    LET at == {i \in 1..Len(line) : line[i] = "# Transaction type:"}
        first == Least(at)
        later == {i \in at : i > first}
        stop == IF later = {} THEN Len(line) + 1 ELSE Least(later)
    IN Trim(SubSeq(line, first + 1, stop - 1))

\* the names of the lines with the transaction-type marker, in line order
RECURSIVE AnnotatedNames(_)
AnnotatedNames(ls) ==
    IF ls = <<>> THEN <<>>
    ELSE IF Contains(Head(ls), "# Transaction type:")
    THEN <<AnnotatedName(Head(ls))>> \o AnnotatedNames(Tail(ls))
    ELSE AnnotatedNames(Tail(ls))

\* the first n elements of a sequence, each once, at its first place
RECURSIVE KeepFirst(_, _)
KeepFirst(q, n) ==
    IF n = 0 THEN <<>>
    ELSE IF \E i \in 1..(n - 1) : q[i] = q[n] THEN KeepFirst(q, n - 1)
    ELSE Append(KeepFirst(q, n - 1), q[n])

EightSeeds ==
    << <<"Production">>, <<"Processing">>, <<"Transport">>, <<"Quality">>,
       <<"Transfer">>, <<"Environmental">>, <<"Compliance">>, <<"Governance">> >>

\* C11: the loader fails for no ontology content, missing or malformed (it
\* succeeds whenever the reference has a domain name); the types of its
\* result begin with the eight seeds in their order, followed by the trimmed
\* names of the "# Transaction type:" lines in line order, none twice; with
\* the domain ontology file missing or unreadable the result is the eight
\* seeds, the default description and an empty rule map.
LoaderSeedsThenAnnotations ==
    ret.op = "load" =>
        LET f == fs[arg.config.domain_ontology_path]
            named == arg.config.domain_name # <<>>
            text == IF f.state = "file" THEN f.text ELSE <<>>
            all == EightSeeds \o AnnotatedNames(Lines(text))
        IN
        /\ ret.res.ok <=> named
        /\ named =>
              /\ SubSeq(ret.res.val.supported_transaction_types, 1, 8)
                     = EightSeeds
              /\ ret.res.val.supported_transaction_types
                     = KeepFirst(all, Len(all))
              /\ f.state # "file" =>
                     ret.res.val =
                         [domain_name |-> arg.config.domain_name,
                          description |-> <<"Domain configuration for ">>
                                              \o arg.config.domain_name,
                          supported_transaction_types |-> EightSeeds,
                          validation_rules |-> <<>>]

\* C11 witness: the text annotates Recall on two lines, and the result lists
\* the eight seeds and Recall once.
LoadedRecallOnce ==
    /\ ret.op = "load"
    /\ fs[DomainPath].state = "file"
    /\ fs[DomainPath].text =
           <<"# Transaction type:", "Recall", "\n",
             "# Transaction type:", "Recall">>
    /\ ret.res.ok
    /\ ret.res.val.supported_transaction_types
           = EightSeeds \o << <<"Recall">> >>

\* the description the annotation of a text gives, or the default: the
\* text between the first two double quotes after the first rdfs:comment
QuotedAfterFirstComment(text, default) ==
    LET at == {i \in 1..Len(text) : text[i] = "rdfs:comment"}
        quotes == IF at = {} THEN {}
                  ELSE {i \in 1..Len(text) : i > Least(at) /\ text[i] = "\""}
        closing == IF quotes = {} THEN {}
                   ELSE {i \in quotes : i > Least(quotes)}
    IN IF closing = {} THEN default
       ELSE SubSeq(text, Least(quotes) + 1, Least(closing) - 1)

\* C12: the description of the loader's result is the default "Domain
\* configuration for {domain_name}" unless the ontology text contains
\* rdfs:comment, and then it is the first double-quoted string after the
\* first occurrence of that marker; later occurrences of the marker change
\* nothing, and a first marker with no complete quoted string after it
\* leaves the default, without an error.
DescriptionFromFirstComment ==
    (ret.op = "load" /\ arg.config.domain_name # <<>>) =>
        LET f == fs[arg.config.domain_ontology_path]
            default == <<"Domain configuration for ">> \o arg.config.domain_name
        IN
        /\ ret.res.ok
        /\ ret.res.val.description =
               IF f.state = "file"
               THEN QuotedAfterFirstComment(f.text, default)
               ELSE default
        /\ (f.state = "file" /\ ~Contains(f.text, "rdfs:comment")) =>
               ret.res.val.description = default

\* C12 witness: a second rdfs:comment follows the quoted string of the
\* first one, and the description is that quoted string.
SecondCommentIgnored ==
    /\ ret.op = "load"
    /\ fs[DomainPath].state = "file"
    /\ fs[DomainPath].text =
           <<"rdfs:comment", "\"", "a", "\"", "rdfs:comment">>
    /\ ret.res.ok
    /\ ret.res.val.description = <<"a">>

====
